---- MODULE Spec2Model ----
(***************************************************************************)
(* Model of the MangaPlus extension's chapter normalisation engine         *)
(* (src/src/mangaplus/mangaplus.py): number resolution, title resolution,  *)
(* the normalisation pipeline and the two caller filters.                  *)
(*                                                                         *)
(* Text is modelled as a sequence of one-character strings, so that the    *)
(* stripping, splitting and pattern matching of the code are computed and  *)
(* not assumed.  Python's None is the value NONE.                          *)
(***************************************************************************)
EXTENDS Integers, Sequences, FiniteSets, TLC

\* ------------------------------------------------------------------------
\* Text primitives (Python str / re behaviour used by the engine)
\* ------------------------------------------------------------------------

\* Python's None: a one-element sequence that is not a text of characters.
NONE == <<"None">>

Digits == <<"0", "1", "2", "3", "4", "5", "6", "7", "8", "9">>

DigitSet == {Digits[i] : i \in 1..10}

\* characters removed by str.strip() and matched by \s
Whitespace == {" ", "\t", "\n", "\r", "\f"}

\* string.punctuation (the backquote, which the engine's inputs never carry,
\* is left out: it cannot be written in a string of this language)
Punctuation == {"!", "\"", "#", "$", "%", "&", "'", "(", ")", "*", "+", ",",
                "-", ".", "/", ":", ";", "<", "=", ">", "?", "@", "[", "\\",
                "]", "^", "_", "{", "|", "}", "~"}

UpperCase == <<"A", "B", "C", "D", "E", "F", "G", "H", "I", "J", "K", "L", "M",
               "N", "O", "P", "Q", "R", "S", "T", "U", "V", "W", "X", "Y", "Z">>

LowerCase == <<"a", "b", "c", "d", "e", "f", "g", "h", "i", "j", "k", "l", "m",
               "n", "o", "p", "q", "r", "s", "t", "u", "v", "w", "x", "y", "z">>

\* str.lower() on one character
LowerChar(c) ==
    IF \E i \in 1..26 : UpperCase[i] = c
    THEN LowerCase[CHOOSE i \in 1..26 : UpperCase[i] = c]
    ELSE c

\* str.lower()
Lower(s) == [i \in 1..Len(s) |-> LowerChar(s[i])]

\* value of a decimal digit character
DigitVal(c) == (CHOOSE i \in 1..10 : Digits[i] = c) - 1

\* str(n) for a natural number
RECURSIVE NatToStr(_)
NatToStr(n) ==
    IF n < 10 THEN <<Digits[n + 1]>>
    ELSE NatToStr(n \div 10) \o <<Digits[(n % 10) + 1]>>

\* str(n) / f"{n}" for an integer
IntToStr(n) == IF n < 0 THEN <<"-">> \o NatToStr(0 - n) ELSE NatToStr(n)

\* str.lstrip(chars)
RECURSIVE LStrip(_, _)
LStrip(s, chars) ==
    IF s # <<>> /\ Head(s) \in chars THEN LStrip(Tail(s), chars) ELSE s

\* str.rstrip(chars)
RECURSIVE RStrip(_, _)
RStrip(s, chars) ==
    IF s # <<>> /\ s[Len(s)] \in chars
    THEN RStrip(SubSeq(s, 1, Len(s) - 1), chars)
    ELSE s

\* str.strip(chars); str.strip() is PyStrip(s, Whitespace)
PyStrip(s, chars) == RStrip(LStrip(s, chars), chars)

\* str.split(sep) / re.split of a one-character alternation: every separator
\* character cuts, empty pieces are kept
RECURSIVE SplitAcc(_, _, _)
SplitAcc(s, seps, cur) ==
    IF s = <<>> THEN <<cur>>
    ELSE IF Head(s) \in seps
         THEN <<cur>> \o SplitAcc(Tail(s), seps, <<>>)
         ELSE SplitAcc(Tail(s), seps, Append(cur, Head(s)))

Split(s, seps) == SplitAcc(s, seps, <<>>)

\* "sep".join(parts)
RECURSIVE Join(_, _)
Join(parts, sep) ==
    IF Len(parts) = 0 THEN <<>>
    ELSE IF Len(parts) = 1 THEN parts[1]
         ELSE parts[1] \o sep \o Join(Tail(parts), sep)

\* re.split(r"[\s<punctuation>]+", s)[0]: the text before the first run of
\* whitespace or punctuation (empty when s starts with such a run)
RECURSIVE FirstToken(_)
FirstToken(s) ==
    IF s = <<>> \/ Head(s) \in (Whitespace \cup Punctuation) THEN <<>>
    ELSE <<Head(s)>> \o FirstToken(Tail(s))

\* str.startswith(prefix)
StartsWith(s, prefix) ==
    Len(s) >= Len(prefix) /\ SubSeq(s, 1, Len(prefix)) = prefix

\* value of a text of decimal digits
RECURSIVE DigitsVal(_)
DigitsVal(s) ==
    IF s = <<>> THEN 0
    ELSE DigitsVal(SubSeq(s, 1, Len(s) - 1)) * 10 + DigitVal(s[Len(s)])

\* int(text) of a stripped, unsigned text: digits, which may be grouped by
\* single underscores
WellFormedInt(body) ==
    /\ body # <<>>
    /\ \A i \in 1..Len(body) : body[i] \in DigitSet \cup {"_"}
    /\ body[1] # "_" /\ body[Len(body)] # "_"
    /\ \A i \in 1..(Len(body) - 1) : ~(body[i] = "_" /\ body[i + 1] = "_")

PyIntBody(body, sign) ==
    IF WellFormedInt(body)
    THEN [ok |-> TRUE, val |-> sign * DigitsVal(SelectSeq(body, LAMBDA c : c # "_"))]
    ELSE [ok |-> FALSE, val |-> 0]

PyIntStripped(t) ==
    IF t # <<>> /\ Head(t) \in {"+", "-"}
    THEN PyIntBody(Tail(t), IF Head(t) = "-" THEN -1 ELSE 1)
    ELSE PyIntBody(t, 1)

\* int(text): surrounding whitespace and one sign are allowed; anything that
\* is not a whole number is a ValueError (ok = FALSE)
PyInt(s) == PyIntStripped(PyStrip(s, Whitespace))

\* ------------------------------------------------------------------------
\* Number token utilities
\* ------------------------------------------------------------------------

\* str(number): the text itself, or the text "None" for None
PyStr(x) == IF x = NONE THEN <<"N", "o", "n", "e">> ELSE x

\* a variant of parts[0] that keeps the leading zeros
StripLeadingZeros_Kept(first) == first

\* parts[0] of _strip_chapter_number: the first segment without its leading
\* zeros, "0" when nothing is left
StripLeadingZeros(first) ==
    IF Len(LStrip(first, {"0"})) = 0 THEN <<"0">> ELSE LStrip(first, {"0"})

\* the segments of _strip_chapter_number rejoined with '.'
JoinStripped(parts) == Join(<<StripLeadingZeros(parts[1])>> \o Tail(parts), <<".">>)

\* Extension._strip_chapter_number: trim whitespace, then '#'; split on '.'
\* or '-'; drop the leading zeros of the first segment; rejoin with '.'
_strip_chapter_number(number) ==
    JoinStripped(Split(PyStrip(PyStrip(PyStr(number), Whitespace), {"#"}), {".", "-"}))

\* publoader.utils.utils.chapter_number_regex.match(num): the strict
\* dotted-decimal pattern ^\d+(\.\d+)?$
chapter_number_regex(num) ==
    LET AllDigits(t) == t # <<>> /\ \A i \in 1..Len(t) : t[i] \in DigitSet
    IN /\ Len(Split(num, {"."})) \in {1, 2}
       /\ \A k \in 1..Len(Split(num, {"."})) : AllDigits(Split(num, {"."})[k])

\* re.match(r"^#?(\d+)", text): digits at the start, after at most one '#'
NumberMatch(raw) ==
    \/ raw # <<>> /\ Head(raw) \in DigitSet
    \/ Len(raw) >= 2 /\ Head(raw) = "#" /\ raw[2] \in DigitSet

\* The test of one record inside _get_surrounding_chapter: "match" when
\* re.match(r"^#?(\d+)") finds digits or the first token of the '#'-stripped
\* text converts with int(); "skip" on ValueError; "TypeError" when the
\* record's number is None (re.match is handed a non-string)
LeadingInteger(raw) ==
    IF raw = NONE THEN "TypeError"
    ELSE IF NumberMatch(raw) \/ PyInt(FirstToken(PyStrip(raw, {"#"}))).ok
         THEN "match" ELSE "skip"

\* ------------------------------------------------------------------------
\* Neighbor resolver
\* ------------------------------------------------------------------------

\* list.index(x): position of the first element equal to x
Index(chapters, x) == CHOOSE i \in 1..Len(chapters) :
    chapters[i] = x /\ \A j \in 1..(i - 1) : chapters[j] # x

\* the body of the for-loop of _get_surrounding_chapter for one record whose
\* test gave t
RECURSIVE ScanChapters(_, _)
ScanStep(chapters, order, t) ==
    IF t = "TypeError" THEN [exc |-> "TypeError", val |-> <<>>]
    ELSE IF t = "match" THEN [exc |-> "", val |-> <<chapters[Head(order)]>>]
    ELSE ScanChapters(chapters, Tail(order))

\* the for-loop of _get_surrounding_chapter over the positions in order:
\* the first record with a leading integer, none (<<>>) when the positions
\* run out, or the TypeError of a record without number text
ScanChapters(chapters, order) ==
    IF order = <<>> THEN [exc |-> "", val |-> <<>>]
    ELSE ScanStep(chapters, order, LeadingInteger(chapters[Head(order)].chapter_number))

\* the positions visited: backwards from the one before at, or forwards
\* from at
IndexSearch(chapters, at, next_chapter_search) ==
    IF next_chapter_search
    THEN [k \in 1..(Len(chapters) - at + 1) |-> at + k - 1]
    ELSE [k \in 1..(at - 1) |-> at - k]

\* Extension._get_surrounding_chapter: backwards from the record before the
\* current one, or (next_chapter_search) forwards from the current one
_get_surrounding_chapter(chapters, current_chapter, next_chapter_search) ==
    ScanChapters(chapters,
                 IndexSearch(chapters, Index(chapters, current_chapter),
                             next_chapter_search))

\* ------------------------------------------------------------------------
\* Number resolver
\* ------------------------------------------------------------------------

EX == <<"e", "x">>

\* the default decimal of a synthesized number (chapter_decimal = "5")
DefaultDecimal == <<"5">>

\* the distance from which the guard discards a synthesized number
DistanceLimit == 5

\* next_chapter_number: None without a next record, else the leading segment
\* of its stripped number as an integer, minus one; int() may raise
NextNumberOf(converted) ==
    IF converted.ok THEN [exc |-> "", val |-> IntToStr(converted.val - 1)]
    ELSE [exc |-> "ValueError", val |-> NONE]

NextChapterNumber(next_chapter) ==
    IF next_chapter = <<>> THEN [exc |-> "", val |-> NONE]
    ELSE NextNumberOf(PyInt(
            Split(_strip_chapter_number(next_chapter[1].chapter_number),
                  {".", "-", ","})[1]))

\* previous_chapter_number of a stripped number: what follows its last
\* comma, or without a comma its first dot/dash segment
PreviousNumberOf(stripped) ==
    IF Len(Split(stripped, {","})) > 1
    THEN Split(stripped, {","})[Len(Split(stripped, {","}))]
    ELSE Split(stripped, {".", "-"})[1]

PreviousChapterNumber(previous_chapter) ==
    IF previous_chapter = <<>> THEN NONE
    ELSE PreviousNumberOf(_strip_chapter_number(previous_chapter[1].chapter_number))

\* the anchor's number: the previous record's when there is one, else the
\* next record's, else None; "ex" counts as None
AnchorNumber(previous_chapter, next_chapter, previous_chapter_number, next_chapter_number) ==
    IF previous_chapter = <<>>
    THEN (IF next_chapter = <<>> THEN NONE ELSE next_chapter_number)
    ELSE (IF previous_chapter_number = EX THEN NONE ELSE previous_chapter_number)

\* math.sqrt((int(a) - int(b)) ** 2) >= 5, for converted a and b
TooDistant(a, b) ==
    IF ~(a.ok /\ b.ok) THEN [exc |-> "ValueError", far |-> FALSE]
    ELSE [exc |-> "",
          far |-> (IF a.val >= b.val THEN a.val - b.val ELSE b.val - a.val)
                      >= DistanceLimit]

\* a variant of the distance guard that is entered for every anchor number
DistanceGuard_AnyTarget(chapter_number, current_number) ==
    IF chapter_number # NONE
    THEN TooDistant(PyInt(current_number), PyInt(chapter_number))
    ELSE [exc |-> "", far |-> FALSE]

\* the distance guard: entered only for a number whose stripped text is not
\* "ex"; discards an anchor number 5 or more away
DistanceGuard(chapter_number, current_number) ==
    IF chapter_number # NONE /\ current_number # EX
    THEN TooDistant(PyInt(current_number), PyInt(chapter_number))
    ELSE [exc |-> "", far |-> FALSE]

\* the decimal taken from a second anchor whose raw number holds a '.': its
\* last dotted integer plus one, the value so far if that is no integer
DottedDecimal(converted, so_far) ==
    IF converted.ok THEN IntToStr(converted.val + 1) ELSE so_far

\* a variant of the decimal suffix that always takes the index difference
DecimalOf_IndexGap(chapter_difference, second_index_number, has_next) ==
    IntToStr(chapter_difference)

\* The decimal suffix of a synthesized number: "5"; the index difference of
\* the anchors when no next record exists; when the difference exceeds 1,
\* the second anchor's dotted decimal plus one or else the difference
DecimalOf(chapter_difference, second_index_number, has_next) ==
    IF chapter_difference > 1
    THEN IF \E i \in 1..Len(second_index_number) : second_index_number[i] = "."
         THEN DottedDecimal(
                PyInt(Split(second_index_number, {"."})[Len(Split(second_index_number, {"."}))]),
                IF has_next THEN DefaultDecimal ELSE IntToStr(chapter_difference))
         ELSE IntToStr(chapter_difference)
    ELSE IF has_next THEN DefaultDecimal ELSE IntToStr(chapter_difference)

ChapterDecimal(chapters, first_index, second_index, has_next) ==
    DecimalOf(Index(chapters, first_index) - Index(chapters, second_index),
              second_index.chapter_number, has_next)

\* f"{chapter_number}.{chapter_decimal}" for the anchor pair in use: (target,
\* previous) or, without a previous record, (next, target)
SynthesizedNumber(chapters, chapter, previous_chapter, next_chapter, chapter_number) ==
    chapter_number \o <<".">> \o
        (IF previous_chapter = <<>>
         THEN ChapterDecimal(chapters, next_chapter[1], chapter, TRUE)
         ELSE ChapterDecimal(chapters, chapter, previous_chapter[1], next_chapter # <<>>))

\* the "ex" branch after the anchor's number is chosen: guard, then suffix
ExtraFromAnchor(chapters, chapter, previous_chapter, next_chapter, chapter_number, guard) ==
    IF guard.exc # "" THEN [exc |-> guard.exc, val |-> NONE]
    ELSE IF chapter_number = NONE \/ guard.far THEN [exc |-> "", val |-> NONE]
    ELSE [exc |-> "",
          val |-> SynthesizedNumber(chapters, chapter, previous_chapter, next_chapter,
                                    chapter_number)]

ExtraGuarded(chapters, chapter, current_number, previous_chapter, next_chapter, chapter_number) ==
    ExtraFromAnchor(chapters, chapter, previous_chapter, next_chapter, chapter_number,
                    DistanceGuard(chapter_number, current_number))

\* the "ex" branch after both searches returned
ExtraFromNumbers(chapters, chapter, current_number, previous_chapter, next_chapter, next_chapter_number) ==
    IF next_chapter_number.exc # "" THEN [exc |-> next_chapter_number.exc, val |-> NONE]
    ELSE ExtraGuarded(chapters, chapter, current_number, previous_chapter, next_chapter,
                      AnchorNumber(previous_chapter, next_chapter,
                                   PreviousChapterNumber(previous_chapter),
                                   next_chapter_number.val))

ExtraFromNeighbors(chapters, chapter, current_number, previous_chapter, next_chapter) ==
    IF previous_chapter.exc # "" THEN [exc |-> previous_chapter.exc, val |-> NONE]
    ELSE IF next_chapter.exc # "" THEN [exc |-> next_chapter.exc, val |-> NONE]
    ELSE ExtraFromNumbers(chapters, chapter, current_number, previous_chapter.val,
                          next_chapter.val, NextChapterNumber(next_chapter.val))

\* The "ex" branch of _normalise_chapter_number: the number synthesized from
\* the neighbors of an extra chapter, None, or the exception that escapes
ExtraChapterNumber(chapters, chapter, current_number) ==
    ExtraFromNeighbors(chapters, chapter, current_number,
                       _get_surrounding_chapter(chapters, chapter, FALSE),
                       _get_surrounding_chapter(chapters, chapter, TRUE))

SpinOffPrefixes == {<<"s", "p", "i", "n", "-", "o", "f", "f">>,
                    <<"s", "p", "i", "n", ".", "o", "f", "f">>}

OneShotTexts == {<<"o", "n", "e", "-", "s", "h", "o", "t">>,
                 <<"o", "n", "e", ".", "s", "h", "o", "t">>}

\* the text after a matched spin-off prefix and one whitespace character
AfterSpinOff(after) ==
    IF after # <<>> /\ Head(after) \in Whitespace THEN Tail(after) ELSE after

\* re.sub(r"(?:spin\-off|spin\.off)\s?", "", text, count): the first count
\* occurrences, left to right, are removed together with one following
\* whitespace character
RECURSIVE SubSpinOff(_, _)
SubSpinOff(text, count) ==
    IF text = <<>> \/ count = 0 THEN text
    ELSE IF \E p \in SpinOffPrefixes : StartsWith(text, p)
         THEN SubSpinOff(AfterSpinOff(SubSeq(text, 9, Len(text))), count - 1)
         ELSE <<Head(text)>> \o SubSpinOff(Tail(text), count)

\* re.I, passed by the code in the position of re.sub's count argument
ReIgnoreCase == 2

\* the branches of _normalise_chapter_number on the stripped number text
NumberOfStripped(chapters, chapter, chapter_number, lowered) ==
    IF chapter_number = EX
    THEN ExtraChapterNumber(chapters, chapter, chapter_number)
    ELSE IF lowered \in OneShotTexts
    THEN [exc |-> "", val |-> NONE]
    ELSE IF \E p \in SpinOffPrefixes : StartsWith(lowered, p)
    THEN [exc |-> "", val |-> PyStrip(SubSpinOff(lowered, ReIgnoreCase), Whitespace)]
    ELSE [exc |-> "", val |-> chapter_number]

NumberOfCurrent(chapters, chapter, current_number) ==
    NumberOfStripped(chapters, chapter, current_number, Lower(current_number))

\* _normalise_chapter_number up to the split: the number text of the record
\* (None when there is none), or the exception that escapes
ComputedChapterNumber(chapters, chapter) ==
    IF chapter.chapter_number = NONE THEN [exc |-> "", val |-> NONE]
    ELSE NumberOfCurrent(chapters, chapter, _strip_chapter_number(chapter.chapter_number))

\* a variant of the split that leaves the pieces as they are cut
StripPieces_AsCut(pieces) == pieces

\* the pieces of the number text, every one stripped again
StripPieces(pieces) == [k \in 1..Len(pieces) |-> _strip_chapter_number(pieces[k])]

\* the split of the number text on ','
SplitChapterNumber(chapter_number) ==
    IF chapter_number = NONE THEN <<NONE>>
    ELSE StripPieces(Split(chapter_number, {","}))

\* a variant of the validation loop that lets every piece through
ValidateChapterNumbers_Unchecked(chapter_number_split) == chapter_number_split

\* the validation loop: a piece that is not a strict number becomes None
ValidateChapterNumbers(chapter_number_split) ==
    [k \in 1..Len(chapter_number_split) |->
        IF chapter_number_split[k] = NONE
           \/ ~chapter_number_regex(chapter_number_split[k])
        THEN NONE ELSE chapter_number_split[k]]

\* the override lookup that ends _normalise_chapter_number; dict.get is
\* handed the computed numbers unpacked as its default arguments, a
\* TypeError when there are two or more of them
ApplyNumberOverrides(chapter, override_options, returned_chapter_numbers) ==
    IF chapter.chapter_id \in DOMAIN override_options.override_chapter_numbers
    THEN IF Len(returned_chapter_numbers) > 1
         THEN [exc |-> "TypeError", val |-> <<>>]
         ELSE [exc |-> "",
               val |-> <<override_options.override_chapter_numbers[chapter.chapter_id]>>]
    ELSE IF chapter.chapter_id \in DOMAIN override_options.multi_chapters
    THEN [exc |-> "", val |-> override_options.multi_chapters[chapter.chapter_id]]
    ELSE [exc |-> "", val |-> returned_chapter_numbers]

\* _normalise_chapter_number from the computed number text on
NumbersOfComputed(chapter, override_options, computed) ==
    IF computed.exc # "" THEN [exc |-> computed.exc, val |-> <<>>]
    ELSE ApplyNumberOverrides(chapter, override_options,
            ValidateChapterNumbers(SplitChapterNumber(computed.val)))

\* Extension._normalise_chapter_number
_normalise_chapter_number(chapters, chapter, override_options) ==
    NumbersOfComputed(chapter, override_options, ComputedChapterNumber(chapters, chapter))

\* ------------------------------------------------------------------------
\* Regular expressions of the title resolver (Python re, backtracking order)
\* ------------------------------------------------------------------------

\* pattern nodes: ^, $, a greedy quantified character class (max = -1: no
\* maximum), a greedy optional group, an alternation of literal texts
ReStart == [t |-> "start"]

ReEnd == [t |-> "end"]

ReClass(set, min, max) == [t |-> "cls", neg |-> FALSE, set |-> set, min |-> min, max |-> max]

ReNotClass(set, min, max) == [t |-> "cls", neg |-> TRUE, set |-> set, min |-> min, max |-> max]

ReOpt(body) == [t |-> "opt", body |-> body]

ReAlt(alts) == [t |-> "alt", alts |-> alts]

ReClassHas(n, c) == IF n.neg THEN c \notin n.set ELSE c \in n.set

\* the longest run of class characters at pos, capped by the node's maximum
RECURSIVE ReRun(_, _, _, _)
ReRun(n, s, pos, k) ==
    IF (n.max = -1 \/ k < n.max) /\ pos + k <= Len(s) /\ ReClassHas(n, s[pos + k])
    THEN ReRun(n, s, pos, k + 1)
    ELSE k

\* Position after the match of the node sequence at pos, 0 when there is no
\* match.  Greedy choices are tried longest first and an optional group
\* before its absence, each with everything that follows, as re does.
RECURSIVE ReMatch(_, _, _)
RECURSIVE ReTryCount(_, _, _, _, _)
RECURSIVE ReTryAlt(_, _, _, _, _)
ReMatch(nodes, s, pos) ==
    IF Len(nodes) = 0 THEN pos
    ELSE LET n == Head(nodes)
             rest == Tail(nodes)
         IN IF n.t = "start" THEN (IF pos = 1 THEN ReMatch(rest, s, pos) ELSE 0)
            ELSE IF n.t = "end"
            THEN (IF pos = Len(s) + 1 \/ (pos = Len(s) /\ s[pos] = "\n")
                  THEN ReMatch(rest, s, pos) ELSE 0)
            ELSE IF n.t = "cls" THEN ReTryCount(n, rest, s, pos, ReRun(n, s, pos, 0))
            ELSE IF n.t = "opt"
            THEN LET r == ReMatch(n.body \o rest, s, pos)
                 IN IF r # 0 THEN r ELSE ReMatch(rest, s, pos)
            ELSE ReTryAlt(n.alts, rest, s, pos, 1)

ReTryCount(n, rest, s, pos, k) ==
    IF k < n.min THEN 0
    ELSE LET r == ReMatch(rest, s, pos + k)
         IN IF r # 0 THEN r ELSE ReTryCount(n, rest, s, pos, k - 1)

ReTryAlt(alts, rest, s, pos, a) ==
    IF a > Len(alts) THEN 0
    ELSE LET w == alts[a]
             here == /\ pos + Len(w) - 1 <= Len(s)
                     /\ Lower(SubSeq(s, pos, pos + Len(w) - 1)) = Lower(w)
             r == IF here THEN ReMatch(rest, s, pos + Len(w)) ELSE 0
         IN IF r # 0 THEN r ELSE ReTryAlt(alts, rest, s, pos, a + 1)

\* pattern.match(text)
ReMatches(nodes, s) == ReMatch(nodes, s, 1) # 0

\* pattern.sub("", text, count=1): the leftmost match is removed
ReSubFirst(nodes, s) ==
    LET starts == {p \in 1..(Len(s) + 1) : ReMatch(nodes, s, p) # 0}
    IN IF starts = {} THEN s
       ELSE LET p == CHOOSE q \in starts : \A o \in starts : q <= o
            IN SubSeq(s, 1, p - 1) \o SubSeq(s, ReMatch(nodes, s, p), Len(s))

\* (?:\S+\s?)
ReToken == <<ReNotClass(Whitespace, 1, -1), ReClass(Whitespace, 0, 1)>>

\* \d+(?:(?:[\,\-\.])\d{0,2})?
ReNumber == <<ReClass(DigitSet, 1, -1),
              ReOpt(<<ReClass({",", "-", "."}, 1, 1), ReClass(DigitSet, 0, 2)>>)>>

ReSpace == ReClass(Whitespace, 0, 1)

colon_regex ==
    <<ReStart, ReOpt(ReToken)>> \o ReNumber \o <<ReSpace, ReClass({":"}, 1, 1), ReSpace>>

no_title_regex == <<ReStart>> \o ReToken \o ReNumber \o <<ReEnd>>

hashtag_regex ==
    <<ReStart, ReOpt(ReToken), ReClass({"#"}, 1, 1)>> \o ReNumber \o <<ReSpace>>

period_dash_regex ==
    <<ReStart, ReOpt(ReToken)>> \o ReNumber
        \o <<ReSpace, ReClass({".", "/", "-"}, 1, 1), ReSpace>>

spaces_regex == <<ReStart, ReOpt(ReToken)>> \o ReNumber \o <<ReSpace>>

final_chapter_regex ==
    <<ReStart,
      ReAlt(<<<<"f", "i", "n", "a", "l">>, <<"l", "a", "s", "t">>>>),
      ReSpace,
      ReAlt(<<<<"c", "h", "a", "p", "t", "e", "r">>, <<"e", "p">>,
              <<"e", "p", "i", "s", "o", "d", "e">>>>),
      ReSpace, ReClass({":", "."}, 1, 1), ReSpace>>

\* ^(?:\S+\s?)\s?{num2words}\s?(?:{num2words}\s?)?\:\s? for the alternation of
\* the configured number words
word_numbers_regex(num2words) ==
    <<ReStart>> \o ReToken
        \o <<ReSpace, ReAlt(num2words), ReSpace,
             ReOpt(<<ReAlt(num2words), ReSpace>>), ReClass({":"}, 1, 1), ReSpace>>

\* ------------------------------------------------------------------------
\* Title resolver
\* ------------------------------------------------------------------------

FinalChapterTitle == <<"f", "i", "n", "a", "l", " ", "c", "h", "a", "p", "t", "e", "r">>

EmptyTitles == {<<>>, <<"n", "o", "n", "e">>, <<"n", "u", "l", "l">>}

\* Extension._get_num2words_string: None when no word list is configured,
\* else the alternation of the configured words (an empty list gives the
\* empty group, which matches the empty text)
_get_num2words_string(override_options) ==
    IF override_options.num2words = NONE THEN NONE
    ELSE IF Len(override_options.num2words) = 0 THEN <<<<>>>>
    ELSE override_options.num2words

\* a variant of the built-in patterns that tries the generic pattern first
BuiltinPatterns_GenericFirst(num2words) ==
    <<spaces_regex, final_chapter_regex>>
        \o (IF num2words = NONE THEN <<>> ELSE <<word_numbers_regex(num2words)>>)
        \o <<colon_regex, no_title_regex, period_dash_regex, hashtag_regex>>

\* the built-in patterns in the order the ladder tries them; the word-number
\* pattern takes part only when number words are configured
BuiltinPatterns(num2words) ==
    <<final_chapter_regex>>
        \o (IF num2words = NONE THEN <<>> ELSE <<word_numbers_regex(num2words)>>)
        \o <<colon_regex, no_title_regex, period_dash_regex, hashtag_regex, spaces_regex>>

\* the first pattern of the list that matches the title: <<pattern>>, or
\* <<>> when none does
RECURSIVE FirstMatching(_, _)
FirstMatching(patterns, original_title) ==
    IF Len(patterns) = 0 THEN <<>>
    ELSE IF ReMatches(Head(patterns), original_title) THEN <<Head(patterns)>>
    ELSE FirstMatching(Tail(patterns), original_title)

\* a variant of the ladder without the 'noformat' rule
TitleRule_NoformatSkipped(chapter, chapter_number, override_options, original_title) ==
    IF (chapter.manga_id \in override_options.empty
           /\ \A k \in 1..Len(chapter_number) : chapter_number[k] # NONE)
       \/ Lower(original_title) = FinalChapterTitle
    THEN [rule |-> "empty", pattern_to_use |-> <<>>]
    ELSE IF chapter.manga_id \in DOMAIN override_options.custom
    THEN [rule |-> "pattern", pattern_to_use |-> <<override_options.custom[chapter.manga_id]>>]
    ELSE [rule |-> "pattern",
          pattern_to_use |-> FirstMatching(
              BuiltinPatterns(_get_num2words_string(override_options)), original_title)]

\* a variant of the ladder whose first rule takes the numbers that are None
\* for the ones that are not
TitleRule_NullNumbers(chapter, chapter_number, override_options, original_title) ==
    IF (chapter.manga_id \in override_options.empty
           /\ \A k \in 1..Len(chapter_number) : chapter_number[k] = NONE)
       \/ Lower(original_title) = FinalChapterTitle
    THEN [rule |-> "empty", pattern_to_use |-> <<>>]
    ELSE IF chapter.manga_id \in override_options.noformat
    THEN [rule |-> "noformat", pattern_to_use |-> <<>>]
    ELSE IF chapter.manga_id \in DOMAIN override_options.custom
    THEN [rule |-> "pattern", pattern_to_use |-> <<override_options.custom[chapter.manga_id]>>]
    ELSE [rule |-> "pattern",
          pattern_to_use |-> FirstMatching(
              BuiltinPatterns(_get_num2words_string(override_options)), original_title)]

\* The rule ladder of _normalise_chapter_title: which rule is selected for
\* the stripped title ("empty", "noformat", or "pattern" with the pattern to
\* strip; no pattern when none matches)
TitleRule(chapter, chapter_number, override_options, original_title) ==
    IF (chapter.manga_id \in override_options.empty
           /\ \A k \in 1..Len(chapter_number) : chapter_number[k] # NONE)
       \/ Lower(original_title) = FinalChapterTitle
    THEN [rule |-> "empty", pattern_to_use |-> <<>>]
    ELSE IF chapter.manga_id \in override_options.noformat
    THEN [rule |-> "noformat", pattern_to_use |-> <<>>]
    ELSE IF chapter.manga_id \in DOMAIN override_options.custom
    THEN [rule |-> "pattern", pattern_to_use |-> <<override_options.custom[chapter.manga_id]>>]
    ELSE [rule |-> "pattern",
          pattern_to_use |-> FirstMatching(
              BuiltinPatterns(_get_num2words_string(override_options)), original_title)]

\* the title after the selected rule: None, the stripped original, or the
\* original without the pattern's first match, stripped
ApplyTitleRule(selected, original_title) ==
    IF selected.rule = "empty" THEN NONE
    ELSE IF Len(selected.pattern_to_use) = 0 THEN original_title
    ELSE PyStrip(ReSubFirst(selected.pattern_to_use[1], original_title), Whitespace)

\* the last step: an empty title, "none" and "null" become None
NoneIfEmptyTitle(normalised_title) ==
    IF normalised_title # NONE /\ Lower(normalised_title) \in EmptyTitles
    THEN NONE
    ELSE normalised_title

TitleOfStripped(chapter, chapter_number, override_options, original_title) ==
    NoneIfEmptyTitle(
        ApplyTitleRule(TitleRule(chapter, chapter_number, override_options, original_title),
                       original_title))

\* Extension._normalise_chapter_title
_normalise_chapter_title(chapter, chapter_number, override_options) ==
    TitleOfStripped(chapter, chapter_number, override_options,
                    PyStrip(PyStr(chapter.chapter_title), Whitespace))

\* ------------------------------------------------------------------------
\* Normalisation pipeline
\* ------------------------------------------------------------------------

\* a variant of the explosion loop without copy(): every pass assigns to the
\* input record itself, which is what the emitted entries then all are
ExplodeChapter_InPlace(chapter, chapter_number_split, chapter_title) ==
    [exc |-> "",
     val |-> [k \in 1..Len(chapter_number_split) |->
                [chapter EXCEPT
                    !.chapter_number = chapter_number_split[Len(chapter_number_split)],
                    !.chapter_title = chapter_title]],
     source |-> IF Len(chapter_number_split) = 0 THEN chapter
                ELSE [chapter EXCEPT
                        !.chapter_number = chapter_number_split[Len(chapter_number_split)],
                        !.chapter_title = chapter_title]]

\* The explosion loop of normalise_chapter_fields: one shallow copy of the
\* record per resolved number, each given that number and the shared title;
\* source is the input record as the loop leaves it (copy() protects it)
ExplodeChapter(chapter, chapter_number_split, chapter_title) ==
    [exc |-> "",
     val |-> [k \in 1..Len(chapter_number_split) |->
                [chapter EXCEPT !.chapter_number = chapter_number_split[k],
                                !.chapter_title = chapter_title]],
     source |-> chapter]

\* normalise_chapter_fields after the numbers are resolved
FieldsOfNumbers(chapter, override_options, chapter_number_split) ==
    IF chapter_number_split.exc # ""
    THEN [exc |-> chapter_number_split.exc, val |-> <<>>, source |-> chapter]
    ELSE ExplodeChapter(chapter, chapter_number_split.val,
                        _normalise_chapter_title(chapter, chapter_number_split.val,
                                                 override_options))

\* Extension.normalise_chapter_fields
normalise_chapter_fields(chapters, chapter, override_options) ==
    FieldsOfNumbers(chapter, override_options,
                    _normalise_chapter_number(chapters, chapter, override_options))

\* ------------------------------------------------------------------------
\* State
\* ------------------------------------------------------------------------

VARIABLES
    fetch_all_chapters,     \* self.fetch_all_chapters
    _posted_chapters_ids,   \* self._posted_chapters_ids (texts of ids)
    override_options,       \* self.override_options
    manga_chapters_lists,   \* _chapter_updates: the chapter lists of the manga
    latest_updates,         \* _get_updates: the Chapter of every latest update
    li,                     \* normalise_chapters: position in the lists
    ci,                     \* position in the current list / in the updates
    updated_chapters,       \* the accumulator of normalise_chapters / updates
    _all_mplus_chapters,    \* self._all_mplus_chapters
    _updated_chapters,      \* self._updated_chapters
    now,                    \* the clock value read by the expiry filter
    exception,              \* the exception that ended the run, "" if none
    pc                      \* position of the run

vars == <<fetch_all_chapters, _posted_chapters_ids, override_options,
          manga_chapters_lists, latest_updates, li, ci, updated_chapters,
          _all_mplus_chapters, _updated_chapters, now, exception, pc>>

\* DEFAULT_TIMESTAMP, the start/end time given to a record that carries none
DEFAULT_TIMESTAMP == 1

\* chapter_expire of a Chapter that _get_updates builds without an expiry
NoExpire == 0

\* str(chapter.chapter_id) not in self._posted_chapters_ids
NotPosted(chapter, posted) == IntToStr(chapter.chapter_id) \notin posted

\* a variant of the filter of _chapter_updates without the expiry test
ChapterUpdatesKeep_NoExpiry(chapter, posted, clock) == NotPosted(chapter, posted)

\* the filter of _chapter_updates: not posted and not expired
ChapterUpdatesKeep(chapter, posted, clock) ==
    NotPosted(chapter, posted) /\ chapter.chapter_expire >= clock

\* the filter of _get_updates: not posted
GetUpdatesKeep(chapter, posted, clock) == NotPosted(chapter, posted)

\* the position after (l, c) in the nested loops of normalise_chapters
NextList(lists, l, c) == IF c < Len(lists[l]) THEN l ELSE l + 1

NextChapter(lists, l, c) == IF c < Len(lists[l]) THEN c + 1 ELSE 1

\* ------------------------------------------------------------------------
\* Inputs: the decoded feed, the override configuration, the posted ids
\* ------------------------------------------------------------------------

\* longest chapter list of a manga
MaxChapters == 3

\* most entries in the latest-updates feed
MaxUpdates == 2

\* latest time stamp of the feed and of the clock
MaxTime == 2

MangaId == "100001"

\* Extension._normalise_chapter_object: the Chapter of one feed entry of the
\* title detail view
ChapterObject(chapterId, entry, endTimeStamp) ==
    [chapter_id |-> chapterId,
     chapter_timestamp |-> DEFAULT_TIMESTAMP,
     chapter_title |-> entry.subTitle,
     chapter_expire |-> endTimeStamp,
     chapter_number |-> entry.name,
     chapter_language |-> "en",
     manga_id |-> MangaId]

\* the Chapter that _get_updates builds of one latest update: no expiry is
\* handed to it
UpdateObject(chapterId, entry) ==
    [chapter_id |-> chapterId,
     chapter_timestamp |-> DEFAULT_TIMESTAMP,
     chapter_title |-> entry.subTitle,
     chapter_expire |-> NoExpire,
     chapter_number |-> entry.chapterNumber,
     chapter_language |-> "en",
     manga_id |-> MangaId]

\* the chapterListGroup of the manga: one list, or two when cut > 0
ChapterListGroup(chapters, cut) ==
    IF cut = 0 THEN <<chapters>>
    ELSE <<SubSeq(chapters, 1, cut), SubSeq(chapters, cut + 1, Len(chapters))>>

NoOverrides ==
    [override_chapter_numbers |-> <<>>, multi_chapters |-> <<>>, empty |-> {},
     noformat |-> {}, custom |-> <<>>, num2words |-> NONE]

\* feed entries for number resolution: plain, extra, joined, malformed,
\* absent and zero numbers
NumberFeed ==
    {[name |-> <<"#", "1">>,
      subTitle |-> <<"C", "h", " ", "1", ":", " ", "A">>],
     [name |-> <<"e", "x">>,
      subTitle |-> <<"E", "x", "t", "r", "a">>],
     [name |-> <<"#", "3">>,
      subTitle |-> <<"#", "3", " ", "C">>],
     [name |-> <<"1", "2", ",", "1", "3">>,
      subTitle |-> <<"C", "h", "a", "p", "t", "e", "r", " ", "1", "2", ":", " ", "T", "h", "e", " ", "B", "e", "g", "i", "n", "n", "i", "n", "g">>],
     [name |-> <<"1", "2", " ", "e", "x", "t", "r", "a">>,
      subTitle |-> <<"1", "2">>],
     [name |-> NONE,
      subTitle |-> NONE],
     [name |-> <<"#", "0">>,
      subTitle |-> <<"P", "r", "o", "l", "o", "g", "u", "e">>]}

\* override tables for number resolution: none; chapter 1 in both tables,
\* chapter 2 in multi_chapters, chapter 3 mapped to no number at all; chapter
\* 2 in override_chapter_numbers alone
NumberOverrides ==
    {NoOverrides,
     [NoOverrides EXCEPT
        !.override_chapter_numbers = (1 :> <<"7", ".", "5">>),
        !.multi_chapters = (1 :> << <<"8">>, <<"9">> >>) @@ (2 :> << <<"8">>, <<"9">> >>)
                           @@ (3 :> <<>>)],
     [NoOverrides EXCEPT !.override_chapter_numbers = (2 :> <<"7", ".", "5">>)]}

\* The state in which fetch_updates starts one of its two runs: the chapter
\* lists of the manga (all-chapters run) or the latest updates, drawn from
\* the given feed entries, override tables, posted-id sets and expiry times
InitWith(feed, overrides, posted, expiries, maxChapters, maxUpdates) ==
    /\ override_options \in overrides
    /\ _posted_chapters_ids \in posted
    /\ fetch_all_chapters \in BOOLEAN
    /\ IF fetch_all_chapters
       THEN /\ \E n \in 1..maxChapters :
                 \E f \in [1..n -> feed], e \in [1..n -> expiries], cut \in {0, 1} :
                    /\ cut < n
                    /\ manga_chapters_lists =
                         ChapterListGroup([k \in 1..n |-> ChapterObject(k, f[k], e[k])], cut)
            /\ latest_updates = <<>>
       ELSE /\ manga_chapters_lists = <<>>
            /\ \E n \in 1..maxUpdates :
                 \E f \in [1..n -> feed] :
                    latest_updates =
                        [k \in 1..n |->
                            UpdateObject(k, [chapterNumber |-> f[k].name,
                                             subTitle |-> f[k].subTitle])]
    /\ li = 1
    /\ ci = 1
    /\ updated_chapters = <<>>
    /\ _all_mplus_chapters = <<>>
    /\ _updated_chapters = <<>>
    /\ now = 0
    /\ exception = ""
    /\ pc = IF fetch_all_chapters THEN "normalise" ELSE "updates"

Init == InitWith(NumberFeed, NumberOverrides, {{<<"2">>}}, {MaxTime},
                 MaxChapters, MaxUpdates)

\* ------------------------------------------------------------------------
\* Operations
\* ------------------------------------------------------------------------

\* a variant of the pass that puts the new chapters in front of the
\* accumulated ones
NormaliseStep_Prepend(r) ==
    IF r.exc # ""
    THEN /\ pc' = "raised"
         /\ exception' = r.exc
         /\ UNCHANGED <<manga_chapters_lists, li, ci, updated_chapters>>
    ELSE /\ updated_chapters' = r.val \o updated_chapters
         /\ manga_chapters_lists' = [manga_chapters_lists EXCEPT ![li][ci] = r.source]
         /\ li' = NextList(manga_chapters_lists, li, ci)
         /\ ci' = NextChapter(manga_chapters_lists, li, ci)
         /\ UNCHANGED <<pc, exception>>

\* the effect of one pass of the loop of normalise_chapters with the result
\* r of normalise_chapter_fields: an exception ends the run
NormaliseStep(r) ==
    IF r.exc # ""
    THEN /\ pc' = "raised"
         /\ exception' = r.exc
         /\ UNCHANGED <<manga_chapters_lists, li, ci, updated_chapters>>
    ELSE /\ updated_chapters' = updated_chapters \o r.val
         /\ manga_chapters_lists' = [manga_chapters_lists EXCEPT ![li][ci] = r.source]
         /\ li' = NextList(manga_chapters_lists, li, ci)
         /\ ci' = NextChapter(manga_chapters_lists, li, ci)
         /\ UNCHANGED <<pc, exception>>

\* normalise_chapters: one pass of the inner loop, the record at (li, ci)
\* through normalise_chapter_fields
NormaliseChapter ==
    /\ pc = "normalise"
    /\ li <= Len(manga_chapters_lists)
    /\ NormaliseStep(normalise_chapter_fields(manga_chapters_lists[li],
                                              manga_chapters_lists[li][ci],
                                              override_options))
    /\ UNCHANGED <<fetch_all_chapters, _posted_chapters_ids, override_options,
                   latest_updates, _all_mplus_chapters, _updated_chapters, now>>

\* _chapter_updates after normalise_chapters returned: every normalised
\* chapter is kept in _all_mplus_chapters, the new ones in _updated_chapters
ChapterUpdatesFilter ==
    /\ pc = "normalise"
    /\ li > Len(manga_chapters_lists)
    /\ \E clock \in 1..MaxTime :
          /\ now' = clock
          /\ _updated_chapters' = _updated_chapters \o
                SelectSeq(updated_chapters,
                          LAMBDA c : ChapterUpdatesKeep(c, _posted_chapters_ids, clock))
    /\ _all_mplus_chapters' = _all_mplus_chapters \o updated_chapters
    /\ pc' = "done"
    /\ UNCHANGED <<fetch_all_chapters, _posted_chapters_ids, override_options,
                   manga_chapters_lists, latest_updates, li, ci, updated_chapters,
                   exception>>

\* the effect of one pass of the loop of _get_updates with the result r of
\* normalise_chapter_fields
GetUpdatesStep(r) ==
    IF r.exc # ""
    THEN /\ pc' = "raised"
         /\ exception' = r.exc
         /\ UNCHANGED <<latest_updates, ci, updated_chapters>>
    ELSE /\ updated_chapters' = updated_chapters \o r.val
         /\ latest_updates' = [latest_updates EXCEPT ![ci] = r.source]
         /\ ci' = ci + 1
         /\ UNCHANGED <<pc, exception>>

\* _get_updates: one pass of the loop over the latest updates, the Chapter
\* normalised against the list that holds it alone
GetUpdatesChapter ==
    /\ pc = "updates"
    /\ ci <= Len(latest_updates)
    /\ GetUpdatesStep(normalise_chapter_fields(<<latest_updates[ci]>>, latest_updates[ci],
                                               override_options))
    /\ UNCHANGED <<fetch_all_chapters, _posted_chapters_ids, override_options,
                   manga_chapters_lists, li, _all_mplus_chapters, _updated_chapters,
                   now>>

\* _get_updates after its loop: the updates not yet posted are kept
GetUpdatesFilter ==
    /\ pc = "updates"
    /\ ci > Len(latest_updates)
    /\ \E clock \in 1..MaxTime :
          /\ now' = clock
          /\ _updated_chapters' = _updated_chapters \o
                SelectSeq(updated_chapters,
                          LAMBDA c : GetUpdatesKeep(c, _posted_chapters_ids, clock))
    /\ pc' = "done"
    /\ UNCHANGED <<fetch_all_chapters, _posted_chapters_ids, override_options,
                   manga_chapters_lists, latest_updates, li, ci, updated_chapters,
                   _all_mplus_chapters, exception>>

Next ==
    \/ NormaliseChapter
    \/ ChapterUpdatesFilter
    \/ GetUpdatesChapter
    \/ GetUpdatesFilter

Spec == Init /\ [][Next]_vars

\* ------------------------------------------------------------------------
\* Vocabulary of the properties
\* ------------------------------------------------------------------------

\* The calls of normalise_chapter_fields made so far: the list and position
\* handed over, and whether the call returned or raised (the call that
\* raised is the one at the position where the run stopped)
Handled ==
    IF fetch_all_chapters
    THEN UNION {{[chapters |-> manga_chapters_lists[l], at |-> c,
                  outcome |-> IF l = li /\ c = ci THEN "raised" ELSE "returned"] :
                    c \in {x \in 1..Len(manga_chapters_lists[l]) :
                              \/ l < li
                              \/ l = li /\ x < ci
                              \/ l = li /\ x = ci /\ pc = "raised"}} :
                l \in 1..Len(manga_chapters_lists)}
    ELSE {[chapters |-> <<latest_updates[c]>>, at |-> 1,
           outcome |-> IF c = ci THEN "raised" ELSE "returned"] :
              c \in {x \in 1..Len(latest_updates) : x < ci \/ (x = ci /\ pc = "raised")}}

Returned == {h \in Handled : h.outcome = "returned"}

Target(h) == h.chapters[h.at]

\* the chapters emitted for the record with this id, in output order
Block(id) == SelectSeq(updated_chapters, LAMBDA c : c.chapter_id = id)

Numbers(block) == [k \in 1..Len(block) |-> block[k].chapter_number]

NumbersOf(h) == Numbers(Block(Target(h).chapter_id))

InOverrideNumbers(h) ==
    Target(h).chapter_id \in DOMAIN override_options.override_chapter_numbers

InMultiChapters(h) == Target(h).chapter_id \in DOMAIN override_options.multi_chapters

Overridden(h) == InOverrideNumbers(h) \/ InMultiChapters(h)

\* the record's number text strips to "ex"
IsExtra(h) ==
    Target(h).chapter_number # NONE /\ _strip_chapter_number(Target(h).chapter_number) = EX

\* the record at position j of the list carries a leading integer
Bearing(h, j) ==
    h.chapters[j].chapter_number # NONE
        /\ LeadingInteger(h.chapters[j].chapter_number) = "match"

\* a text of the form digits, or digits '.' digits
StrictText(s) ==
    /\ Len(s) >= 1
    /\ \A i \in 1..Len(s) : s[i] \in DigitSet \cup {"."}
    /\ Cardinality({i \in 1..Len(s) : s[i] = "."}) <= 1
    /\ s[1] # "." /\ s[Len(s)] # "."

StrictOrNone(s) == IF s # NONE /\ StrictText(s) THEN s ELSE NONE

\* ------------------------------------------------------------------------
\* Properties
\* ------------------------------------------------------------------------

\* C1 (as claimed): a record whose chapter_id is a key of
\* override_chapter_numbers resolves to exactly [override value], also when
\* the id is in multi_chapters too; otherwise a record whose id is a key of
\* multi_chapters resolves to that table's list; whatever the number text
\* is ("ex", "12,13", ...), so the call returns and the computed numbers
\* play no part.
C1_OverridePrecedence ==
    \A h \in Handled :
        /\ InOverrideNumbers(h) =>
              /\ h.outcome = "returned"
              /\ NumbersOf(h) =
                    <<override_options.override_chapter_numbers[Target(h).chapter_id]>>
        /\ (~InOverrideNumbers(h) /\ InMultiChapters(h)) =>
              /\ h.outcome = "returned"
              /\ NumbersOf(h) = override_options.multi_chapters[Target(h).chapter_id]

\* C2: every number emitted for a record that is in neither override table
\* is None or a strict dotted decimal (digits, or digits '.' digits).
C2_StrictOrNone ==
    \A h \in Returned :
        ~Overridden(h) =>
            \A k \in 1..Len(NumbersOf(h)) :
                NumbersOf(h)[k] = NONE \/ StrictText(NumbersOf(h)[k])

\* C2 witness: an extra chapter at the head of its list, anchored to a next
\* record numbered 0 (base -1), has been resolved to None.
C2_Witness ==
    \E h \in Returned :
        /\ ~Overridden(h)
        /\ IsExtra(h)
        /\ h.at = 1 /\ Len(h.chapters) >= 2
        /\ h.chapters[2].chapter_number = <<"#", "0">>
        /\ NumbersOf(h) = <<NONE>>

\* C3 (as claimed): with no override configured, number resolution never
\* raises, whatever number texts the records of the series carry; and an
\* extra chapter with no integer-bearing record before it or at/after it
\* resolves to [None].
C3_NeverRaises ==
    override_options = NoOverrides =>
        /\ pc # "raised"
        /\ \A h \in Returned :
              (IsExtra(h) /\ \A j \in 1..Len(h.chapters) : ~Bearing(h, j))
                  => NumbersOf(h) = <<NONE>>

\* the situation of C4: an extra chapter, not overridden, with an
\* integer-bearing record right before it and another somewhere after it
AnchoredBothSides(h) ==
    /\ ~Overridden(h)
    /\ IsExtra(h)
    /\ h.at > 1
    /\ Bearing(h, h.at - 1)
    /\ \E j \in (h.at + 1)..Len(h.chapters) : Bearing(h, j)

PreviousStripped(h) == _strip_chapter_number(h.chapters[h.at - 1].chapter_number)

\* C4 (as claimed): in that situation the resolved number is "<base>.5",
\* base being the first dot/dash segment of the previous record's stripped
\* number.
C4_AnchoringAsClaimed ==
    \A h \in Returned :
        AnchoredBothSides(h) =>
            NumbersOf(h) = <<Split(PreviousStripped(h), {".", "-"})[1] \o <<".", "5">> >>

\* the base of C4 as amended: what follows the last comma of the previous
\* record's stripped number, or without a comma its first dot/dash segment
AnchorBase(stripped) ==
    IF \E i \in 1..Len(stripped) : stripped[i] = ","
    THEN Split(stripped, {","})[Len(Split(stripped, {","}))]
    ELSE Split(stripped, {".", "-"})[1]

\* the first integer-bearing record after the extra chapter
FirstBearingAfter(h) ==
    CHOOSE j \in (h.at + 1)..Len(h.chapters) :
        /\ Bearing(h, j)
        /\ \A i \in (h.at + 1)..(j - 1) : ~Bearing(h, i)

\* a record without number text lies between the two
NullBeforeNext(h) ==
    \E i \in (h.at + 1)..(FirstBearingAfter(h) - 1) : h.chapters[i].chapter_number = NONE

\* the stripped number of that record does not begin with an integer segment
NextNotInteger(h) ==
    ~PyInt(Split(_strip_chapter_number(h.chapters[FirstBearingAfter(h)].chapter_number),
                 {".", "-", ","})[1]).ok

\* C4 (amended): in that situation the call raises TypeError when a record
\* without number text precedes the next integer-bearing record, and
\* ValueError when that record's stripped number does not begin with an
\* integer segment; otherwise the resolved list holds one element:
\* "<base>.5" stripped once more if that is a strict number, else None; and
\* for the series ['#1', 'ex', '#3'] it is ['1.5'].
C4_Anchoring ==
    \A h \in Handled :
        AnchoredBothSides(h) =>
            IF NullBeforeNext(h)
            THEN h.outcome = "raised" /\ exception = "TypeError"
            ELSE IF NextNotInteger(h)
            THEN h.outcome = "raised" /\ exception = "ValueError"
            ELSE /\ h.outcome = "returned"
                 /\ NumbersOf(h) =
                       <<StrictOrNone(_strip_chapter_number(
                             AnchorBase(PreviousStripped(h)) \o <<".", "5">>))>>

\* C4 witness: the middle record of ['#1', 'ex', '#3'] resolved to ['1.5'].
C4_Witness ==
    \E h \in Returned :
        /\ AnchoredBothSides(h)
        /\ [k \in 1..Len(h.chapters) |-> h.chapters[k].chapter_number]
              = << <<"#", "1">>, EX, <<"#", "3">> >>
        /\ h.at = 2
        /\ NumbersOf(h) = << <<"1", ".", "5">> >>

\* C7: no operation changes a record of the input series or an override
\* table, and normalising a record again later, when more of the series has
\* been normalised, gives what was emitted for it the first time.
C7_Purity ==
    /\ [][/\ manga_chapters_lists' = manga_chapters_lists
          /\ latest_updates' = latest_updates
          /\ override_options' = override_options]_vars
    /\ [](\A h \in Returned :
            Block(Target(h).chapter_id)
                = normalise_chapter_fields(h.chapters, Target(h), override_options).val)

\* C7 witness: the run is over, and an extra chapter that followed an
\* already normalised record got a number synthesized from its neighbors.
C7_Witness ==
    /\ pc = "done"
    /\ \E h \in Returned :
          /\ IsExtra(h) /\ ~Overridden(h)
          /\ h.at > 1
          /\ NumbersOf(h) # <<NONE>>

\* the input records of the run in input order
RECURSIVE FlattenLists(_)
FlattenLists(lists) ==
    IF Len(lists) = 0 THEN <<>> ELSE Head(lists) \o FlattenLists(Tail(lists))

InputRecords ==
    IF fetch_all_chapters THEN FlattenLists(manga_chapters_lists) ELSE latest_updates

\* position in the input of the record a chapter was derived from
InputPosition(chapter) ==
    CHOOSE k \in 1..Len(InputRecords) : InputRecords[k].chapter_id = chapter.chapter_id

\* the output keeps the input order, and holds nothing but chapters of
\* records normalised so far
InInputOrder ==
    /\ \A i, j \in 1..Len(updated_chapters) :
          i < j => InputPosition(updated_chapters[i]) <= InputPosition(updated_chapters[j])
    /\ \A i \in 1..Len(updated_chapters) :
          \E h \in Returned : Target(h).chapter_id = updated_chapters[i].chapter_id

\* C8 (as claimed): the output is the concatenation, in input order, of one
\* block per input record, and every record contributes at least one
\* chapter.
C8_ShapeAsClaimed ==
    /\ InInputOrder
    /\ \A h \in Returned : Len(Block(Target(h).chapter_id)) >= 1

\* multi_chapters maps the record to no number at all (and
\* override_chapter_numbers does not take precedence)
MappedToNothing(h) ==
    /\ ~InOverrideNumbers(h)
    /\ InMultiChapters(h)
    /\ Len(override_options.multi_chapters[Target(h).chapter_id]) = 0

\* C8 (amended): the output is the concatenation, in input order, of one
\* block per input record; a record contributes at least one chapter, except
\* that a record multi_chapters maps to the empty list contributes none.
C8_PipelineShape ==
    /\ InInputOrder
    /\ \A h \in Returned :
          IF MappedToNothing(h)
          THEN Len(Block(Target(h).chapter_id)) = 0
          ELSE Len(Block(Target(h).chapter_id)) >= 1

\* C8 witness: a finished all-chapters run over three records in which one
\* record gave two chapters and another, mapped to the empty list, none.
C8_Witness ==
    /\ pc = "done"
    /\ fetch_all_chapters
    /\ Len(InputRecords) = 3
    /\ \E h \in Returned : Len(Block(Target(h).chapter_id)) = 2
    /\ \E h \in Returned : MappedToNothing(h)

\* ------------------------------------------------------------------------
\* Runs over joined numbers and titles
\* ------------------------------------------------------------------------

\* longest chapter list and updates feed of these runs
MaxTitleChapters == 2

OneShot == <<"O", "n", "e", "-", "S", "h", "o", "t">>

\* feed entries with joined numbers, a spin-off prefix, one-shot numbers and
\* one-shot titles
TitleFeed ==
    {[name |-> <<"1", "2", ",", "1", "3">>,
      subTitle |-> <<"C", "h", "a", "p", "t", "e", "r", " ", "1", "2", ":", " ", "T", "h", "e", " ", "B", "e", "g", "i", "n", "n", "i", "n", "g">>],
     [name |-> <<"0", "1", "2", ",", "0", "1", "3">>,
      subTitle |-> <<"#", "1", "2", " ", "A">>],
     [name |-> <<"S", "p", "i", "n", "-", "o", "f", "f", " ", "4", ",", "5">>,
      subTitle |-> <<"F", "i", "n", "a", "l", " ", "C", "h", "a", "p", "t", "e", "r">>],
     [name |-> OneShot, subTitle |-> OneShot],
     [name |-> <<"#", "1">>, subTitle |-> OneShot],
     [name |-> EX, subTitle |-> OneShot]}

\* override tables for title resolution: none; the manga in 'empty'; in
\* 'empty' and 'noformat'; in 'empty' with the custom pattern ^one-
TitleOverrides ==
    {NoOverrides,
     [NoOverrides EXCEPT !.empty = {MangaId}],
     [NoOverrides EXCEPT !.empty = {MangaId}, !.noformat = {MangaId}],
     [NoOverrides EXCEPT
        !.empty = {MangaId},
        !.custom = (MangaId :> <<ReStart, ReAlt(<< <<"o", "n", "e", "-">> >>)>>)]}

InitTitle == InitWith(TitleFeed, TitleOverrides, {{<<"2">>}}, {MaxTime},
                      MaxTitleChapters, MaxTitleChapters)

SpecTitle == InitTitle /\ [][Next]_vars

\* the record's number text is joined of two or more pieces
IsJoined(h) ==
    /\ Target(h).chapter_number # NONE
    /\ Len(Split(Target(h).chapter_number, {","})) >= 2

\* the number text stripped as a whole; of a text that begins with a
\* spin-off prefix, the lowered text without the prefixes re.sub removes
WithoutSpinOff(stripped) ==
    IF \E p \in SpinOffPrefixes : StartsWith(Lower(stripped), p)
    THEN PyStrip(SubSpinOff(Lower(stripped), ReIgnoreCase), Whitespace)
    ELSE stripped

\* the comma pieces of the record's number text
JoinedPieces(h) ==
    Split(WithoutSpinOff(_strip_chapter_number(Target(h).chapter_number)), {","})

\* C5: a record in neither override table whose number text is k >= 2
\* comma-separated pieces gives exactly k chapters; their numbers are the
\* pieces (of the text stripped as a whole and rid of a spin-off prefix),
\* stripped and validated, in the order given; all k carry the one resolved
\* title and the record's values of every other field.
C5_Explosion ==
    \A h \in Returned :
        (~Overridden(h) /\ IsJoined(h)) =>
            LET block == Block(Target(h).chapter_id)
                k == Len(Split(Target(h).chapter_number, {","}))
            IN /\ Len(block) = k
               /\ Len(JoinedPieces(h)) = k
               /\ \A i \in 1..k :
                     /\ block[i].chapter_number =
                           StrictOrNone(_strip_chapter_number(JoinedPieces(h)[i]))
                     /\ block[i].chapter_title = block[1].chapter_title
                     /\ block[i] = [Target(h) EXCEPT
                                       !.chapter_number = block[i].chapter_number,
                                       !.chapter_title = block[i].chapter_title]

\* C5 witness: '12,13' gave the chapters 12 and 13, and '012,013' as well,
\* each pair under one title.
C5_Witness ==
    /\ \E h \in Returned :
          /\ ~Overridden(h)
          /\ Target(h).chapter_number = <<"1", "2", ",", "1", "3">>
          /\ NumbersOf(h) = << <<"1", "2">>, <<"1", "3">> >>
          /\ Block(Target(h).chapter_id)[1].chapter_title
                = <<"T", "h", "e", " ", "B", "e", "g", "i", "n", "n", "i", "n", "g">>
    /\ \E h \in Returned :
          /\ Target(h).chapter_number = <<"0", "1", "2", ",", "0", "1", "3">>
          /\ NumbersOf(h) = << <<"1", "2">>, <<"1", "3">> >>

\* the situation of C6: a chapter of a manga in 'empty', titled 'One-Shot',
\* has been emitted
OneShotOfEmpty(c) ==
    /\ c.manga_id \in override_options.empty
    /\ \E h \in Returned :
          /\ Target(h).chapter_id = c.chapter_id
          /\ Target(h).chapter_title = OneShot

NumbersOfChapter(c) == Numbers(Block(c.chapter_id))

\* C6 (as claimed): in that situation the title is None when every resolved
\* number is None, and ends as 'One-Shot' when some resolved number is not.
C6_OneShotAsClaimed ==
    \A i \in 1..Len(updated_chapters) :
        LET c == updated_chapters[i]
        IN OneShotOfEmpty(c) =>
              IF \A k \in 1..Len(NumbersOfChapter(c)) : NumbersOfChapter(c)[k] = NONE
              THEN c.chapter_title = NONE
              ELSE c.chapter_title = OneShot

\* C6 (amended): in that situation the title is None when no resolved number
\* is None; when one is, rule 1 does not apply and the title goes down the
\* rest of the ladder: it stays 'One-Shot' unless a custom pattern of the
\* manga (and no 'noformat' entry) removes a part of it.
C6_OneShot ==
    \A i \in 1..Len(updated_chapters) :
        LET c == updated_chapters[i]
        IN OneShotOfEmpty(c) =>
              IF \A k \in 1..Len(NumbersOfChapter(c)) : NumbersOfChapter(c)[k] # NONE
              THEN c.chapter_title = NONE
              ELSE IF c.manga_id \in override_options.noformat
                      \/ c.manga_id \notin DOMAIN override_options.custom
              THEN c.chapter_title = OneShot
              ELSE c.chapter_title = <<"S", "h", "o", "t">>

\* C6 witness: of a manga in 'empty', with no 'noformat' entry and no custom
\* pattern, a 'One-Shot' chapter without number kept its title and a
\* 'One-Shot' chapter numbered 1 lost it.
C6_Witness ==
    /\ override_options.noformat = {}
    /\ DOMAIN override_options.custom = {}
    /\ \E i, j \in 1..Len(updated_chapters) :
          /\ OneShotOfEmpty(updated_chapters[i])
          /\ updated_chapters[i].chapter_number = NONE
          /\ updated_chapters[i].chapter_title = OneShot
          /\ OneShotOfEmpty(updated_chapters[j])
          /\ updated_chapters[j].chapter_number = <<"1">>
          /\ updated_chapters[j].chapter_title = NONE

\* ------------------------------------------------------------------------
\* Runs over posted and expired chapters
\* ------------------------------------------------------------------------

\* longest chapter list and updates feed of these runs
MaxCallerChapters == 3

CallerFeed ==
    {[name |-> <<"#", "1">>, subTitle |-> <<"A">>],
     [name |-> <<"1", "2", ",", "1", "3">>, subTitle |-> <<"B">>]}

PostedIds == {{}, {<<"1">>}, {<<"2">>}, {<<"1">>, <<"2">>}, {<<"0", "1">>}}

InitCaller == InitWith(CallerFeed, {NoOverrides}, PostedIds, 1..MaxTime,
                       MaxCallerChapters, MaxCallerChapters)

SpecCaller == InitCaller /\ [][Next]_vars

\* the chapter is in the list that get_updated_chapters returns
InUpdatedChapters(c) ==
    \E i \in 1..Len(_updated_chapters) : _updated_chapters[i] = c

IsPosted(c) == IntToStr(c.chapter_id) \in _posted_chapters_ids

\* C9 (as claimed): on either path, when the run is over, a normalised
\* chapter is in the updated-chapters list if and only if it is not posted
\* and its expiry is not before the clock.
C9_FilterAsClaimed ==
    pc = "done" =>
        \A i \in 1..Len(updated_chapters) :
            LET c == updated_chapters[i]
            IN InUpdatedChapters(c) <=> (~IsPosted(c) /\ c.chapter_expire >= now)

\* C9 (amended): when the all-chapters run is over, a normalised chapter is
\* in the updated-chapters list if and only if it is not posted and its
\* expiry is not before the clock; when the latest-updates run is over, if
\* and only if it is not posted, its chapters carrying no expiry; and the
\* list holds nothing else.
C9_CallerFilter ==
    /\ pc = "done" =>
          \A i \in 1..Len(updated_chapters) :
              LET c == updated_chapters[i]
              IN InUpdatedChapters(c) <=>
                    IF fetch_all_chapters
                    THEN ~IsPosted(c) /\ c.chapter_expire >= now
                    ELSE ~IsPosted(c)
    /\ ~fetch_all_chapters =>
          \A i \in 1..Len(updated_chapters) : updated_chapters[i].chapter_expire = NoExpire
    /\ \A i \in 1..Len(_updated_chapters) :
          /\ pc = "done"
          /\ \E j \in 1..Len(updated_chapters) : updated_chapters[j] = _updated_chapters[i]

\* C9 witness: an all-chapters run is over that dropped a posted chapter
\* and an expired one and kept a third.
C9_Witness ==
    /\ pc = "done"
    /\ fetch_all_chapters
    /\ \E i, j, k \in 1..Len(updated_chapters) :
          /\ IsPosted(updated_chapters[i])
          /\ ~InUpdatedChapters(updated_chapters[i])
          /\ ~IsPosted(updated_chapters[j])
          /\ updated_chapters[j].chapter_expire < now
          /\ ~InUpdatedChapters(updated_chapters[j])
          /\ InUpdatedChapters(updated_chapters[k])

\* ------------------------------------------------------------------------
\* Runs over strict numbers
\* ------------------------------------------------------------------------

\* longest chapter list and updates feed of these runs
MaxStrictChapters == 2

\* most digits of a plain number of the feed
MaxStrictLen == 2

\* the plain numbers of up to MaxStrictLen digits 0 and 1
PlainNumbers == UNION {[1..n -> {"0", "1"}] : n \in 1..MaxStrictLen}

\* feed entries whose numbers are strict: plain ones, dotted ones with and
\* without leading and trailing zeros; and an extra chapter
StrictFeed ==
    {[name |-> t, subTitle |-> <<"T">>] :
        t \in PlainNumbers \cup {<<"0", ".", "5">>, <<"0", "1", ".", "5">>,
                                 <<"1", ".", "5", "0">>, EX}}

InitStrict == InitWith(StrictFeed, {NoOverrides}, {{}}, {MaxTime},
                       MaxStrictChapters, MaxStrictChapters)

SpecStrict == InitStrict /\ [][Next]_vars

\* a strict number without the superfluous leading zeros of its integer part
RECURSIVE DropZeros(_)
DropZeros(t) ==
    IF Len(t) >= 2 /\ t[1] = "0" /\ t[2] \in DigitSet THEN DropZeros(Tail(t)) ELSE t

\* the record's number text is a strict number
IsStrict(h) == Target(h).chapter_number # NONE /\ StrictText(Target(h).chapter_number)

\* C10 (as claimed): with no overrides, a record whose number text is a
\* strict number resolves to the one-element list of that very text.
C10_UnchangedAsClaimed ==
    override_options = NoOverrides =>
        \A h \in Returned : IsStrict(h) => NumbersOf(h) = <<Target(h).chapter_number>>

\* C10 (amended): with no overrides, a record whose number text is a strict
\* number resolves to the one-element list of that text without the
\* superfluous leading zeros of its integer part, so to the text itself
\* exactly when it has none; and every number emitted has none, and
\* normalised once more as the number text of a record resolves to itself.
C10_Idempotence ==
    override_options = NoOverrides =>
        /\ \A h \in Returned :
              IsStrict(h) => NumbersOf(h) = <<DropZeros(Target(h).chapter_number)>>
        /\ \A i \in 1..Len(updated_chapters) :
              LET c == updated_chapters[i]
              IN c.chapter_number # NONE =>
                    /\ DropZeros(c.chapter_number) = c.chapter_number
                    /\ _normalise_chapter_number(<<c>>, c, override_options)
                          = [exc |-> "", val |-> <<c.chapter_number>>]

\* C10 witness: '01' was resolved to '1', and the extra chapter after it,
\* the last of the list, to '1.1', synthesized from it.
C10_Witness ==
    /\ \E h \in Returned :
          Target(h).chapter_number = <<"0", "1">> /\ NumbersOf(h) = << <<"1">> >>
    /\ \E h \in Returned : IsExtra(h) /\ NumbersOf(h) = << <<"1", ".", "1">> >>

\* ------------------------------------------------------------------------
\* Runs over the rule ladder of the titles
\* ------------------------------------------------------------------------

\* longest chapter list and updates feed of these runs
MaxLadderChapters == 1

ChapterTwelveA == <<"C", "h", "a", "p", "t", "e", "r", " ", "1", "2", ":", " ", "A">>

\* feed entries numbered 1 for every rule of the ladder: a title per
\* built-in pattern, one that no pattern matches, titles with surrounding
\* whitespace, 'none', no title, 'Final Chapter'; and an entry without number
LadderFeed ==
    {[name |-> <<"#", "1">>, subTitle |-> t] : t \in
        {<<"f", "i", "n", "a", "l", " ", "c", "h", "a", "p", "t", "e", "r", ":", " ", "E", "n", "d">>,
         <<"C", "h", "a", "p", "t", "e", "r", " ", "O", "n", "e", ":", " ", "A">>,
         ChapterTwelveA,
         <<"C", "h", "a", "p", "t", "e", "r", " ", "1", "2">>,
         <<"1", "2", " ", "-", " ", "A">>,
         <<"#", "1", "2", " ", "A">>,
         <<"C", "h", " ", "1", "2", " ", "A">>,
         <<"E", "p", "i", "l", "o", "g", "u", "e">>,
         <<" ", "A", " ">>,
         <<"n", "o", "n", "e">>,
         NONE,
         <<"F", "i", "n", "a", "l", " ", "C", "h", "a", "p", "t", "e", "r">>}}
        \cup {[name |-> OneShot, subTitle |-> ChapterTwelveA]}

\* override tables for the ladder: none; 'empty'; 'noformat'; 'empty' and
\* 'noformat'; 'noformat' and the custom pattern ^Ch; that pattern alone;
\* number words
LadderOverrides ==
    LET custom == (MangaId :> <<ReStart, ReAlt(<< <<"c", "h">> >>)>>)
    IN {NoOverrides,
        [NoOverrides EXCEPT !.empty = {MangaId}],
        [NoOverrides EXCEPT !.noformat = {MangaId}],
        [NoOverrides EXCEPT !.empty = {MangaId}, !.noformat = {MangaId}],
        [NoOverrides EXCEPT !.noformat = {MangaId}, !.custom = custom],
        [NoOverrides EXCEPT !.custom = custom],
        [NoOverrides EXCEPT !.num2words = << <<"o", "n", "e">>, <<"t", "w", "o">> >>]}

InitLadder == InitWith(LadderFeed, LadderOverrides, {{<<"2">>}}, {MaxTime},
                       MaxLadderChapters, MaxLadderChapters)

SpecLadder == InitLadder /\ [][Next]_vars

\* the record a chapter was derived from
RecordOf(c) == CHOOSE r \in {Target(h) : h \in Returned} : r.chapter_id = c.chapter_id

\* str(title).strip() of a record
TrimmedTitle(r) == PyStrip(PyStr(r.chapter_title), Whitespace)

\* rule 1 of the ladder applies to the chapter: its manga is in 'empty' and
\* none of its numbers is None, or its title is 'final chapter'
RuleOneFires(c) ==
    \/ /\ c.manga_id \in override_options.empty
       /\ \A k \in 1..Len(NumbersOfChapter(c)) : NumbersOfChapter(c)[k] # NONE
    \/ Lower(TrimmedTitle(RecordOf(c))) = FinalChapterTitle

\* the situation of C11: a chapter of a 'noformat' manga that rule 1 does
\* not apply to
KeptByNoformat(c) == c.manga_id \in override_options.noformat /\ ~RuleOneFires(c)

\* C11 (as claimed): in that situation the title is the record's raw title,
\* unchanged.
C11_VerbatimAsClaimed ==
    \A i \in 1..Len(updated_chapters) :
        KeptByNoformat(updated_chapters[i]) =>
            updated_chapters[i].chapter_title
                = RecordOf(updated_chapters[i]).chapter_title

\* C11 (amended): in that situation the title is the record's raw title
\* without its surrounding whitespace, whatever pattern would match it; and
\* None when the record has no title or that text is empty, 'none' or
\* 'null' in any case.
C11_Noformat ==
    \A i \in 1..Len(updated_chapters) :
        LET c == updated_chapters[i]
        IN KeptByNoformat(c) =>
              c.chapter_title =
                  IF RecordOf(c).chapter_title = NONE
                        \/ Lower(TrimmedTitle(RecordOf(c))) \in EmptyTitles
                  THEN NONE
                  ELSE TrimmedTitle(RecordOf(c))

\* C11 witness: of a 'noformat' manga without custom pattern, a chapter
\* came out with the title 'Chapter 12: A' of its record.
C11_Witness ==
    /\ override_options.noformat = {MangaId}
    /\ override_options.empty = {}
    /\ MangaId \notin DOMAIN override_options.custom
    /\ \E i \in 1..Len(updated_chapters) :
          /\ KeptByNoformat(updated_chapters[i])
          /\ RecordOf(updated_chapters[i]).chapter_title = ChapterTwelveA
          /\ updated_chapters[i].chapter_title = ChapterTwelveA

\* C14: the title of every chapter follows the first rule that applies, in
\* this order: (1) the manga is in 'empty' and no number of the chapter is
\* None, or the trimmed title is 'final chapter' in any case: None, also
\* for a 'noformat' or custom manga; (2) 'noformat': the trimmed title, a
\* custom pattern never being applied; (3) a custom pattern: the trimmed
\* title without that pattern's first match; (4) the trimmed title without
\* the first match of the first built-in pattern that matches it, in the
\* order final-chapter, word-numbers (when number words are configured),
\* colon, number-only, period/dash, hashtag, generic; the trimmed title
\* when none matches. (An empty result, 'none' and 'null' are None.)
C14_LadderPriority ==
    \A i \in 1..Len(updated_chapters) :
        LET c == updated_chapters[i]
            title == TrimmedTitle(RecordOf(c))
            NoneIfEmpty(t) == IF Lower(t) \in EmptyTitles THEN NONE ELSE t
            Stripped(pattern) == NoneIfEmpty(PyStrip(ReSubFirst(pattern, title), Whitespace))
            builtin ==
                <<final_chapter_regex>>
                    \o (IF override_options.num2words = NONE THEN <<>>
                        ELSE <<word_numbers_regex(override_options.num2words)>>)
                    \o <<colon_regex, no_title_regex, period_dash_regex,
                         hashtag_regex, spaces_regex>>
            matching == {k \in 1..Len(builtin) : ReMatches(builtin[k], title)}
        IN IF RuleOneFires(c) THEN c.chapter_title = NONE
           ELSE IF c.manga_id \in override_options.noformat
           THEN c.chapter_title = NoneIfEmpty(title)
           ELSE IF c.manga_id \in DOMAIN override_options.custom
           THEN c.chapter_title = Stripped(override_options.custom[c.manga_id])
           ELSE IF matching = {} THEN c.chapter_title = NoneIfEmpty(title)
           ELSE \E k \in matching :
                   /\ \A j \in matching : k <= j
                   /\ c.chapter_title = Stripped(builtin[k])

\* C14 witness: of a manga in 'empty' and in 'noformat', the chapter
\* numbered 1 with the title 'Chapter 12: A' came out without title.
C14_Witness ==
    /\ override_options.noformat = {MangaId}
    /\ override_options.empty = {MangaId}
    /\ \E i \in 1..Len(updated_chapters) :
          /\ updated_chapters[i].chapter_number = <<"1">>
          /\ RecordOf(updated_chapters[i]).chapter_title = ChapterTwelveA
          /\ updated_chapters[i].chapter_title = NONE

\* ------------------------------------------------------------------------
\* Runs over series of extra chapters
\* ------------------------------------------------------------------------

\* longest chapter list and updates feed of these runs
MaxGapChapters == 4

\* feed entries: a number with a decimal part, an extra chapter, and two
\* numbers 8 apart
GapFeed ==
    {[name |-> <<"1", ".", "2">>, subTitle |-> <<"A">>],
     [name |-> EX, subTitle |-> <<"A">>],
     [name |-> <<"#", "1">>, subTitle |-> <<"A">>],
     [name |-> <<"#", "9">>, subTitle |-> <<"A">>]}

InitGap == InitWith(GapFeed, {NoOverrides}, {{<<"2">>}}, {MaxTime},
                    MaxGapChapters, MaxGapChapters)

SpecGap == InitGap /\ [][Next]_vars

\* position of the nearest integer-bearing record before the target, 0 when
\* there is none
PreviousIndex(h) ==
    IF \E j \in 1..(h.at - 1) : Bearing(h, j)
    THEN CHOOSE j \in 1..(h.at - 1) :
            Bearing(h, j) /\ \A i \in (j + 1)..(h.at - 1) : ~Bearing(h, i)
    ELSE 0

\* position of the first integer-bearing record from the target on, 0 when
\* there is none
NextIndex(h) ==
    IF \E j \in h.at..Len(h.chapters) : Bearing(h, j)
    THEN CHOOSE j \in h.at..Len(h.chapters) :
            Bearing(h, j) /\ \A i \in h.at..(j - 1) : ~Bearing(h, i)
    ELSE 0

\* C12: an extra chapter at position i, in neither override table, with an
\* integer-bearing record before it, the nearest at position p, and none
\* from i on, resolves to "<base>.<i - p>" (validated as every number is),
\* whatever the previous record's number text is, a '.' in it included.
C12_GapDecimal ==
    \A h \in Returned :
        (IsExtra(h) /\ ~Overridden(h) /\ PreviousIndex(h) > 0 /\ NextIndex(h) = 0) =>
            NumbersOf(h) =
                <<StrictOrNone(_strip_chapter_number(
                      AnchorBase(_strip_chapter_number(
                          h.chapters[PreviousIndex(h)].chapter_number))
                        \o <<".">> \o IntToStr(h.at - PreviousIndex(h))))>>

\* C13: for an extra chapter at position i of a list, the backward search
\* returns the record at the greatest position below i that carries a
\* leading integer, the forward search the record at the smallest such
\* position from i on, and each returns None when there is no such
\* position.
C13_PositionalSearch ==
    \A h \in Handled :
        IsExtra(h) =>
            /\ _get_surrounding_chapter(h.chapters, Target(h), FALSE)
                  = [exc |-> "",
                     val |-> IF PreviousIndex(h) = 0 THEN <<>>
                             ELSE <<h.chapters[PreviousIndex(h)]>>]
            /\ _get_surrounding_chapter(h.chapters, Target(h), TRUE)
                  = [exc |-> "",
                     val |-> IF NextIndex(h) = 0 THEN <<>>
                             ELSE <<h.chapters[NextIndex(h)]>>]

\* C15: with no overrides, two extra chapters of one list that have the
\* same nearest integer-bearing record before them never resolve to the
\* same number, unless to None.
C15_NoDuplicates ==
    \A g, h \in Returned :
        (/\ g.chapters = h.chapters /\ g.at < h.at
         /\ IsExtra(g) /\ IsExtra(h)
         /\ ~Overridden(g) /\ ~Overridden(h)
         /\ PreviousIndex(g) > 0 /\ PreviousIndex(g) = PreviousIndex(h)
         /\ NumbersOf(g) = NumbersOf(h))
            => NumbersOf(h) = <<NONE>>

\* every record of the list has a number text, and the stripped number of
\* every integer-bearing record begins with an integer segment
CleanSeries(h) ==
    \A j \in 1..Len(h.chapters) :
        /\ h.chapters[j].chapter_number # NONE
        /\ Bearing(h, j) =>
              PyInt(Split(_strip_chapter_number(h.chapters[j].chapter_number),
                          {".", "-", ","})[1]).ok

\* the number an extra chapter is anchored to: the previous record's base,
\* without one the next record's integer less one, without both None
ExtraBase(h) ==
    IF PreviousIndex(h) > 0
    THEN AnchorBase(_strip_chapter_number(h.chapters[PreviousIndex(h)].chapter_number))
    ELSE IF NextIndex(h) > 0
    THEN IntToStr(PyInt(Split(_strip_chapter_number(
                                  h.chapters[NextIndex(h)].chapter_number),
                              {".", "-", ","})[1]).val - 1)
    ELSE NONE

====
